---- MODULE Spec2Model ----
(***************************************************************************)
(* UV-sphere generation of procgenmemtest: the two generators              *)
(* get_uv_sphere_geom (flat vertex table + triangle index list) and        *)
(* get_uv_sphere_egg_data (vertex pool + polygon records), and the point   *)
(* samplers of points2d.py they drive.                                     *)
(*                                                                         *)
(* Numbers.  Python floats are modelled in fixed point: a length is an     *)
(* integer number of hundredths (One = 1.0), an angle an integer number of *)
(* half degrees (Tau = one turn).  sin and cos are read from a table of    *)
(* sin at every half degree, rounded to the hundredth.  Every angle the    *)
(* generators ask for within the bounds below is an exact multiple of half *)
(* a degree.                                                               *)
(***************************************************************************)
EXTENDS Integers, Sequences, FiniteSets, TLC

\* ---------------------------------------------------------------- bounds
MaxRadius == 2
MaxSegments == 5
MaxRings == 4
PairMaxRadius == 2
PairMaxSegments == 3

\* ------------------------------------------------------ program constants
MinSegments == 3
MinRings == 3
DefaultRadius == 1
DefaultSegments == 16
DefaultRings == 8
MeridianStartDegrees == 270
MeridianProportionPct == 50
Tau == 720

\* ------------------------------------------------------------ math.sin/cos
SinTable ==
    <<   0,   1,   2,   3,   3,   4,   5,   6,   7,   8,   9,  10,  10,  11,  12,
        13,  14,  15,  16,  17,  17,  18,  19,  20,  21,  22,  22,  23,  24,  25,
        26,  27,  28,  28,  29,  30,  31,  32,  33,  33,  34,  35,  36,  37,  37,
        38,  39,  40,  41,  41,  42,  43,  44,  45,  45,  46,  47,  48,  48,  49,
        50,  51,  52,  52,  53,  54,  54,  55,  56,  57,  57,  58,  59,  59,  60,
        61,  62,  62,  63,  64,  64,  65,  66,  66,  67,  68,  68,  69,  69,  70,
        71,  71,  72,  73,  73,  74,  74,  75,  75,  76,  77,  77,  78,  78,  79,
        79,  80,  80,  81,  81,  82,  82,  83,  83,  84,  84,  85,  85,  86,  86,
        87,  87,  87,  88,  88,  89,  89,  89,  90,  90,  91,  91,  91,  92,  92,
        92,  93,  93,  93,  94,  94,  94,  95,  95,  95,  95,  96,  96,  96,  96,
        97,  97,  97,  97,  97,  98,  98,  98,  98,  98,  98,  99,  99,  99,  99,
        99,  99,  99,  99, 100, 100, 100, 100, 100, 100, 100, 100, 100, 100, 100,
       100 >>

\* sin of an angle given in half degrees, in hundredths
Sin(a) ==
    LET r == a % Tau
        q == Tau \div 4
    IN  IF r <= q THEN SinTable[r + 1]
        ELSE IF r <= 2 * q THEN SinTable[(2 * q - r) + 1]
        ELSE IF r <= 3 * q THEN 0 - SinTable[(r - 2 * q) + 1]
        ELSE 0 - SinTable[(Tau - r) + 1]

Cos(a) == Sin(a + (Tau \div 4))

\* the fixed-point representation of 1.0
One == Sin(Tau \div 4)

\* a float given as a whole number
Float(n) == n * One

\* the product of two fixed-point numbers, rounded to the nearest hundredth
Mul(x, y) == (2 * x * y + One) \div (2 * One)

\* ------------------------------------------------------------- points2d.py
\* the angle of the point after the point_index-th
CircleAngleFromOne(point_index, quantity) == ((point_index + 1) * Tau) \div quantity

\* angle of the point_index-th point of yield_2d_circle_points
CircleAngle(point_index, quantity) == (point_index * Tau) \div quantity

\* yield_2d_circle_points: the point yielded for point_index
CirclePoint(point_index, quantity, radius, center) ==
    LET angle_radians == CircleAngle(point_index, quantity)
    IN  << Mul(radius, Cos(angle_radians)) + center[1],
           Mul(radius, Sin(angle_radians)) + center[2] >>

\* start_angle of yield_2d_circle_points_plus
StartAngle(start_degrees) == ((start_degrees % 360) * Tau) \div 360

\* tau_proportion of yield_2d_circle_points_plus, circle_proportion in percent
TauProportion(proportion_pct) == (proportion_pct * Tau) \div 100

\* divisor of yield_2d_circle_points_plus
Divisor(quantity, include_last) == IF include_last THEN quantity - 1 ELSE quantity

\* angle_radians of yield_2d_circle_points_plus before the wrap
UnwrappedAngle(point_index, quantity, start_degrees, include_last, proportion_pct) ==
    ((point_index * TauProportion(proportion_pct)) \div Divisor(quantity, include_last))
        + StartAngle(start_degrees)

\* the wrap of yield_2d_circle_points_plus: one turn is taken off an angle
\* greater than a turn
WrapAngle(angle_radians) ==
    IF angle_radians > Tau THEN angle_radians - Tau ELSE angle_radians

\* yield_2d_circle_points_plus: the point yielded for point_index
CirclePointPlus(point_index, quantity, radius, start_degrees, include_last, proportion_pct, center) ==
    LET angle_radians ==
            WrapAngle(UnwrappedAngle(point_index, quantity, start_degrees,
                                     include_last, proportion_pct))
    IN  << Mul(radius, Cos(angle_radians)) + center[1],
           Mul(radius, Sin(angle_radians)) + center[2] >>

\* ------------------------------------------------------ collections.deque
\* a deque made without maxlen: nothing is ever dropped
DequeExtendUnbounded(d, items, maxlen) == d \o items

\* deque.extend on a deque of the given maxlen: items are appended on the
\* right and, once the deque is full, as many are dropped from the left
DequeExtendKeepOldest(d, items, maxlen) == IF Len(d \o items) <= maxlen THEN d \o items ELSE SubSeq(d \o items, 1, maxlen)
DequeExtend(d, items, maxlen) ==
    LET all == d \o items
        n == Len(all)
    IN  IF n <= maxlen THEN all ELSE SubSeq(all, n - maxlen + 1, n)

\* deque.rotate(-1): the first item moves to the right end
RotateRight(d) == IF Len(d) = 0 THEN d ELSE << d[Len(d)] >> \o SubSeq(d, 1, Len(d) - 1)
RotateLeft(d) == IF Len(d) = 0 THEN d ELSE Tail(d) \o << Head(d) >>

\* d[0] and d[-1]
Front(d) == d[1]
Back(d) == d[Len(d)]

\* range(a, b) as a sequence
Range(a, b) == [i \in 1..(b - a) |-> a + i - 1]

\* ------------------------------------------------------------------ state
\* One entry per generation call in progress; every variable is a function
\* of the call.
VARIABLES
    args,            \* radius, no_of_segments, no_of_rings and the generator called
    pc,              \* the call's position in the generator
    made,            \* the objects the call has created so far
    num_rows,        \* rows pre-allocated by vdata.uncleanSetNumRows
    vdata,           \* rows written through add_point (flat form)
    triangles,       \* triangle_primitives_holder: index triples (flat form)
    vpool,           \* vertices made by makeNewVertex (pool form)
    data,            \* children of the EggData, in addChild order (pool form)
    first_vertex,    \* handle of the south pole (pool form)
    last_vertex,     \* handle of the north pole (pool form)
    current_ring,    \* current_ring_indices / current_ring_vertices
    previous_ring,   \* previous_ring_indices / previous_ring_vertices
    segment_point_index,  \* point_index of the meridian sampler
    ring_index,      \* value given by enumerate(segment_points_xz)
    segment_xz,      \* (segment_x, segment_z) of the ring being built
    point_index,     \* point_index of the ring's yield_2d_circle_points
    loop_count,      \* iterations done of the running range(no_of_segments) loop
    result,          \* what the call gave back: a Geom, an EggData, a ValueError
    sampler,         \* the generator objects made from points2d.py, by the name holding them
    cli              \* the run of __main__.py as a script

callVars == << args, pc, made, num_rows, vdata, triangles, vpool, data, first_vertex, last_vertex, current_ring, previous_ring, segment_point_index, ring_index, segment_xz, point_index, loop_count, result >>

vars == << args, pc, made, num_rows, vdata, triangles, vpool, data, first_vertex, last_vertex, current_ring, previous_ring, segment_point_index, ring_index, segment_xz, point_index, loop_count, result, sampler, cli >>

\* no script is run
NoScript == [pc |-> "none"]

\* the value of a name not bound yet
None == [index |-> -1]

\* the handle makeNewVertex returns: the vertex takes the pool's next index
Handle(n) == [index |-> n]

\* the local state of a call about to start
InitCall(a) ==
    [ args |-> a, pc |-> "start", made |-> {}, num_rows |-> 0,
      vdata |-> << >>, triangles |-> << >>, vpool |-> << >>, data |-> << >>,
      first_vertex |-> None, last_vertex |-> None,
      current_ring |-> << >>, previous_ring |-> << >>,
      segment_point_index |-> 0, ring_index |-> -1, segment_xz |-> << 0, 0 >>,
      point_index |-> 0, loop_count |-> 0, result |-> "none" ]

\* the local state of call c
Local(c) ==
    [ args |-> args[c], pc |-> pc[c], made |-> made[c], num_rows |-> num_rows[c],
      vdata |-> vdata[c], triangles |-> triangles[c], vpool |-> vpool[c],
      data |-> data[c], first_vertex |-> first_vertex[c],
      last_vertex |-> last_vertex[c],
      current_ring |-> current_ring[c], previous_ring |-> previous_ring[c],
      segment_point_index |-> segment_point_index[c],
      ring_index |-> ring_index[c], segment_xz |-> segment_xz[c],
      point_index |-> point_index[c], loop_count |-> loop_count[c],
      result |-> result[c] ]

IsGeom(s) == s.args.form = "geom"
IsEgg(s) == s.args.form = "egg"

\* ------------------------------------------------- the generators' steps
\* Each step is a function of the call's local state: the names below are
\* the locals of get_uv_sphere_geom / get_uv_sphere_egg_data.

\* a radius of zero let through
ArgsInvalidZeroRadius(a) ==
    \/ a.radius < 0
    \/ a.no_of_segments < MinSegments
    \/ a.no_of_rings < MinRings

\* the error conditions checked on entry
ArgsInvalid(a) ==
    \/ a.radius <= 0
    \/ a.no_of_segments < MinSegments
    \/ a.no_of_rings < MinRings

\* one pole left out of the count
NoOfPointsOnePole(a) == 1 + (a.no_of_segments * a.no_of_rings)

\* no_of_points
NoOfPoints(a) == 2 + (a.no_of_segments * a.no_of_rings)

\* the count of the points taken for the index of the last one
IndexOfLastPointPastEnd(a) == 2 + (a.no_of_segments * a.no_of_rings)

\* index_of_last_point
IndexOfLastPoint(a) == NoOfPoints(a) - 1

\* first_ring_index and last_ring_index
FirstRingIndex == 0
LastRingIndex(a) == a.no_of_rings - 1

\* quantity_of_points
QuantityOfPoints(a) == a.no_of_rings + 2

\* the offset for the first point at the bottom left out
FirstIndexOnRingNoOffset(ring, no_of_segments) == ring * no_of_segments

\* first_index_on_ring
FirstIndexOnRing(ring, no_of_segments) == (ring * no_of_segments) + 1

\* the first ring numbered from the south pole's row
RingIndicesFromZero(ring, no_of_segments) == Range(ring * no_of_segments, (ring * no_of_segments) + no_of_segments)

\* the indices put in current_ring_indices for a ring (flat form)
RingIndices(ring, no_of_segments) ==
    IF ring = FirstRingIndex
    THEN Range(1, no_of_segments + 1)
    ELSE Range(FirstIndexOnRing(ring, no_of_segments), FirstIndexOnRing(ring, no_of_segments) + no_of_segments)

\* the children of the EggData
CoordinateSystem == [kind |-> "coordinate_system", value |-> "CSZupRight", vertices |-> << >>]
VertexPool == [kind |-> "vertex_pool", value |-> "vpool", vertices |-> << >>]
Polygon(vs) == [kind |-> "polygon", value |-> "", vertices |-> vs]

\* the same point allocated twice
AddVertexTwice(s, p) ==
    IF IsGeom(s)
    THEN [s EXCEPT !.vdata = Append(Append(@, p), p)]
    ELSE [s EXCEPT !.vpool = Append(Append(@, p), p)]

\* add_point(p) / makeNewVertex(Point3D(p)): the state after it
AddVertex(s, p) ==
    IF IsGeom(s)
    THEN [s EXCEPT !.vdata = Append(@, p)]
    ELSE [s EXCEPT !.vpool = Append(@, p)]

\* the identity of the vertex the next AddVertex makes: the row it is
\* written at, or the handle makeNewVertex returns
NextVertex(s) == IF IsGeom(s) THEN Len(s.vdata) ELSE Handle(Len(s.vpool))

\* add_tri_points_indices(a, b, c) / a new EggPolygon with vertices a, b, c
AddTri(s, tri) ==
    IF IsGeom(s)
    THEN [s EXCEPT !.triangles = Append(@, tri)]
    ELSE [s EXCEPT !.data = Append(@, Polygon(tri))]

\* the angle the meridian sampler passes to cos and sin for point_index
MeridianAngle(a, i) == WrapAngle(UnwrappedAngle(i, QuantityOfPoints(a), MeridianStartDegrees, TRUE, MeridianProportionPct))

\* the meridian sampled without include_last
SegmentPointNoLast(a, i) ==
    CirclePointPlus(i, QuantityOfPoints(a), Float(a.radius), MeridianStartDegrees, FALSE, MeridianProportionPct, << 0, Float(a.radius) >>)

\* the point of the meridian the sampler yields for point_index
SegmentPoint(a, i) ==
    CirclePointPlus(i, QuantityOfPoints(a), Float(a.radius), MeridianStartDegrees, TRUE, MeridianProportionPct, << 0, Float(a.radius) >>)

\* the identity used for the south pole and for the north pole in the fans
SouthPoleId(s) == IF IsGeom(s) THEN 0 ELSE s.first_vertex
NorthPoleId(s) == IF IsGeom(s) THEN IndexOfLastPoint(s.args) ELSE s.last_vertex

\* the second triangle of a bridge step with two corners swapped
BridgeTriBFlipped(prev, cur) == << Back(prev), Front(cur), Front(prev) >>

\* the first triangle of a bridge step taken from the front of the previous window
BridgeTriAFront(prev, cur) == << Front(prev), Front(cur), Back(cur) >>

\* the south fan triangle with the two ring corners swapped
SouthFanTriFlipped(pole, cur) == << pole, Back(cur), Front(cur) >>

\* the triangles of one step of each loop
SouthFanTri(pole, cur) == << pole, Front(cur), Back(cur) >>
BridgeTriA(prev, cur) == << Back(prev), Front(cur), Back(cur) >>
BridgeTriB(prev, cur) == << Front(cur), Back(prev), Front(prev) >>
NorthFanTri(pole, prev) == << pole, Back(prev), Front(prev) >>

\* "check error conditions"
ValidateStep(s) ==
    IF ArgsInvalid(s.args)
    THEN [s EXCEPT !.pc = "raised", !.result = "ValueError"]
    ELSE [s EXCEPT !.pc = "alloc"]

\* the coordinate system never added
EggHeaderNoCoordinateSystem == << VertexPool >>

\* what the EggData holds before the ring loop: z_up, then vpool
EggHeader == << CoordinateSystem, VertexPool >>

\* the containers, the counters and the two deques made before the ring loop
AllocateStep(s) ==
    IF IsGeom(s)
    THEN [s EXCEPT !.pc = "next_ring",
                   !.made = {"vdata", "triangles", "segment_points_xz", "deques"},
                   !.num_rows = NoOfPoints(s.args)]
    ELSE [s EXCEPT !.pc = "next_ring",
                   !.made = {"data", "z_up", "vpool", "segment_points_xz", "deques"},
                   !.data = EggHeader]

\* the index of the meridian sample islice(..., 1, quantity_of_points - 1)
\* gives next: the sampler's sample 0 is consumed and dropped
NextSegmentIndexNoSkip(s) == s.segment_point_index
NextSegmentIndex(s) == IF s.segment_point_index < 1 THEN 1 ELSE s.segment_point_index

\* whether the islice is exhausted
SegmentPointsExhausted(s) == NextSegmentIndex(s) >= QuantityOfPoints(s.args) - 1

\* the head of "for ring_index, (segment_x, segment_z) in enumerate(...)"
NextRingStep(s) ==
    IF SegmentPointsExhausted(s)
    THEN [s EXCEPT !.pc = "clear"]
    ELSE LET i == NextSegmentIndex(s)
             ring == s.ring_index + 1
         IN  [s EXCEPT !.segment_point_index = i + 1,
                       !.ring_index = ring,
                       !.segment_xz = SegmentPoint(s.args, i),
                       !.point_index = 0,
                       !.pc = IF ring = FirstRingIndex THEN "south_pole" ELSE "ring_points"]

\* "add first point"
SouthPoleStep(s) ==
    LET t == AddVertex(s, << 0, 0, 0 >>)
    IN  [t EXCEPT !.pc = "ring_points",
                  !.first_vertex = IF IsEgg(s) THEN NextVertex(s) ELSE @]

\* where a ring's loop starts once its points are in the window
RingLoopPc(s) == IF s.ring_index = FirstRingIndex THEN "south_fan" ELSE "bridge"

\* one point of the ring: sampled, promoted to 3D and added; the pool form
\* puts the handle in the current window as it goes
RingPointStep(s) ==
    LET n == s.args.no_of_segments
        xy == CirclePoint(s.point_index, n, s.segment_xz[1], << 0, 0 >>)
        t == AddVertex(s, << xy[1], xy[2], s.segment_xz[2] >>)
        last == s.point_index + 1 = n
    IN  [t EXCEPT !.point_index = @ + 1,
                  !.current_ring = IF IsEgg(s) THEN DequeExtend(@, << NextVertex(s) >>, n) ELSE @,
                  !.loop_count = 0,
                  !.pc = IF ~last THEN "ring_points"
                         ELSE IF IsGeom(s) THEN "extend" ELSE RingLoopPc(s)]

\* current_ring_indices.extend(range(...)) of the flat form
ExtendStep(s) ==
    [s EXCEPT !.current_ring = DequeExtend(@, RingIndices(s.ring_index, s.args.no_of_segments), s.args.no_of_segments),
              !.loop_count = 0,
              !.pc = RingLoopPc(s)]

\* one iteration of the south fan
SouthFanStep(s) ==
    LET t == AddTri(s, SouthFanTri(SouthPoleId(s), s.current_ring))
        last == s.loop_count + 1 = s.args.no_of_segments
    IN  [t EXCEPT !.current_ring = RotateLeft(@),
                  !.loop_count = @ + 1,
                  !.pc = IF last THEN "copy" ELSE "south_fan"]

\* one iteration of the loop bridging the previous ring and this one
BridgeStep(s) ==
    LET t == AddTri(AddTri(s, BridgeTriA(s.previous_ring, s.current_ring)), BridgeTriB(s.previous_ring, s.current_ring))
        last == s.loop_count + 1 = s.args.no_of_segments
    IN  [t EXCEPT !.previous_ring = RotateLeft(@),
                  !.current_ring = RotateLeft(@),
                  !.loop_count = @ + 1,
                  !.pc = IF last THEN "copy" ELSE "bridge"]

\* the copy left out after the last ring's bridging pass
CopyStepSkipLast(s) ==
    [s EXCEPT !.previous_ring = IF s.ring_index = LastRingIndex(s.args) THEN @ ELSE DequeExtend(@, s.current_ring, s.args.no_of_segments),
              !.pc = IF s.ring_index # FirstRingIndex /\ s.ring_index = LastRingIndex(s.args)
                     THEN "north_pole" ELSE "next_ring"]

\* previous_ring.extend(current_ring), then the test for the last ring,
\* which only the branch of the later rings makes
CopyStep(s) ==
    [s EXCEPT !.previous_ring = DequeExtend(@, s.current_ring, s.args.no_of_segments),
              !.pc = IF s.ring_index # FirstRingIndex /\ s.ring_index = LastRingIndex(s.args)
                     THEN "north_pole" ELSE "next_ring"]

\* the last point put one radius up instead of two
NorthPolePositionRadius(radius) == << 0, 0, Float(radius) >>

\* the position given to the last point
NorthPolePosition(radius) == << 0, 0, Float(radius * 2) >>

\* the north fan reached with the last point not added
NorthPoleStepNoVertex(s) ==
    [s EXCEPT !.pc = "north_fan",
              !.loop_count = 0,
              !.last_vertex = IF IsEgg(s) THEN NextVertex(s) ELSE @]

\* "add last point"
NorthPoleStep(s) ==
    LET t == AddVertex(s, NorthPolePosition(s.args.radius))
    IN  [t EXCEPT !.pc = "north_fan",
                  !.loop_count = 0,
                  !.last_vertex = IF IsEgg(s) THEN NextVertex(s) ELSE @]

\* one iteration of the north fan
NorthFanStep(s) ==
    LET t == AddTri(s, NorthFanTri(NorthPoleId(s), s.previous_ring))
        last == s.loop_count + 1 = s.args.no_of_segments
    IN  [t EXCEPT !.previous_ring = RotateLeft(@),
                  !.loop_count = @ + 1,
                  !.pc = IF last THEN "next_ring" ELSE "north_fan"]

\* the deques are cleared and the Geom / EggData is returned
FinishStep(s) ==
    [s EXCEPT !.previous_ring = << >>,
              !.current_ring = << >>,
              !.made = IF IsGeom(s) THEN @ \cup {"geom"} ELSE @,
              !.result = IF IsGeom(s) THEN "Geom" ELSE "EggData",
              !.pc = "done"]

\* the step a call takes from local state s
StepCall(s) ==
    CASE s.pc = "start" -> ValidateStep(s)
      [] s.pc = "alloc" -> AllocateStep(s)
      [] s.pc = "next_ring" -> NextRingStep(s)
      [] s.pc = "south_pole" -> SouthPoleStep(s)
      [] s.pc = "ring_points" -> RingPointStep(s)
      [] s.pc = "extend" -> ExtendStep(s)
      [] s.pc = "south_fan" -> SouthFanStep(s)
      [] s.pc = "bridge" -> BridgeStep(s)
      [] s.pc = "copy" -> CopyStep(s)
      [] s.pc = "north_pole" -> NorthPoleStep(s)
      [] s.pc = "north_fan" -> NorthFanStep(s)
      [] s.pc = "clear" -> FinishStep(s)
      [] OTHER -> s

Returned(s) == s.pc \in {"done", "raised"}

\* ------------------------------------------------------------ the machine
\* one window shared by every call, as a module-level deque would be
StoreWindowShared(w, c, d) == [x \in DOMAIN w |-> d]

\* a window is a local of the call that made it: writing it touches no
\* other call's window
StoreWindow(w, c, d) == [w EXCEPT ![c] = d]

\* call c's local state becomes n
Commit(c, n) ==
    /\ args' = [args EXCEPT ![c] = n.args]
    /\ pc' = [pc EXCEPT ![c] = n.pc]
    /\ made' = [made EXCEPT ![c] = n.made]
    /\ num_rows' = [num_rows EXCEPT ![c] = n.num_rows]
    /\ vdata' = [vdata EXCEPT ![c] = n.vdata]
    /\ triangles' = [triangles EXCEPT ![c] = n.triangles]
    /\ vpool' = [vpool EXCEPT ![c] = n.vpool]
    /\ data' = [data EXCEPT ![c] = n.data]
    /\ first_vertex' = [first_vertex EXCEPT ![c] = n.first_vertex]
    /\ last_vertex' = [last_vertex EXCEPT ![c] = n.last_vertex]
    /\ current_ring' = StoreWindow(current_ring, c, n.current_ring)
    /\ previous_ring' = StoreWindow(previous_ring, c, n.previous_ring)
    /\ segment_point_index' = [segment_point_index EXCEPT ![c] = n.segment_point_index]
    /\ ring_index' = [ring_index EXCEPT ![c] = n.ring_index]
    /\ segment_xz' = [segment_xz EXCEPT ![c] = n.segment_xz]
    /\ point_index' = [point_index EXCEPT ![c] = n.point_index]
    /\ loop_count' = [loop_count EXCEPT ![c] = n.loop_count]
    /\ result' = [result EXCEPT ![c] = n.result]
    /\ UNCHANGED << sampler, cli >>

\* the calls of a behaviour
Calls == DOMAIN pc

\* the identities a call can have
CallIds == {1, 2}

Forms == {"geom", "egg"}

\* the arguments of a single call: valid ones, each kind of invalid one, and
\* the program's defaults
SingleArgs ==
    [radius : -1..MaxRadius, no_of_segments : (MinSegments - 1)..MaxSegments, no_of_rings : (MinRings - 1)..MaxRings, form : Forms]
    \cup [radius : {DefaultRadius}, no_of_segments : {DefaultSegments}, no_of_rings : {DefaultRings}, form : Forms]

\* the arguments of each of two interleaved calls
PairArgs ==
    [radius : 1..PairMaxRadius, no_of_segments : MinSegments..PairMaxSegments, no_of_rings : {MinRings}, form : Forms]

\* the state in which the calls of a (a function from calls to arguments)
\* are about to start
StartCalls(a) ==
    /\ args = [c \in DOMAIN a |-> InitCall(a[c]).args]
    /\ pc = [c \in DOMAIN a |-> InitCall(a[c]).pc]
    /\ made = [c \in DOMAIN a |-> InitCall(a[c]).made]
    /\ num_rows = [c \in DOMAIN a |-> InitCall(a[c]).num_rows]
    /\ vdata = [c \in DOMAIN a |-> InitCall(a[c]).vdata]
    /\ triangles = [c \in DOMAIN a |-> InitCall(a[c]).triangles]
    /\ vpool = [c \in DOMAIN a |-> InitCall(a[c]).vpool]
    /\ data = [c \in DOMAIN a |-> InitCall(a[c]).data]
    /\ first_vertex = [c \in DOMAIN a |-> InitCall(a[c]).first_vertex]
    /\ last_vertex = [c \in DOMAIN a |-> InitCall(a[c]).last_vertex]
    /\ current_ring = [c \in DOMAIN a |-> InitCall(a[c]).current_ring]
    /\ previous_ring = [c \in DOMAIN a |-> InitCall(a[c]).previous_ring]
    /\ segment_point_index = [c \in DOMAIN a |-> InitCall(a[c]).segment_point_index]
    /\ ring_index = [c \in DOMAIN a |-> InitCall(a[c]).ring_index]
    /\ segment_xz = [c \in DOMAIN a |-> InitCall(a[c]).segment_xz]
    /\ point_index = [c \in DOMAIN a |-> InitCall(a[c]).point_index]
    /\ loop_count = [c \in DOMAIN a |-> InitCall(a[c]).loop_count]
    /\ result = [c \in DOMAIN a |-> InitCall(a[c]).result]

\* the calls about to start, nothing else going on
Start(a) == StartCalls(a) /\ sampler = << >> /\ cli = NoScript

\* one call
Init == \E a \in SingleArgs : Start([c \in {1} |-> a])

\* two calls, each with its own arguments
InitPair == \E a1 \in PairArgs, a2 \in PairArgs : Start([c \in {1, 2} |-> IF c = 1 THEN a1 ELSE a2])

Validate(c) == c \in Calls /\ pc[c] = "start" /\ Commit(c, ValidateStep(Local(c)))
Allocate(c) == c \in Calls /\ pc[c] = "alloc" /\ Commit(c, AllocateStep(Local(c)))
NextRing(c) == c \in Calls /\ pc[c] = "next_ring" /\ Commit(c, NextRingStep(Local(c)))
SouthPole(c) == c \in Calls /\ pc[c] = "south_pole" /\ Commit(c, SouthPoleStep(Local(c)))
RingPoint(c) == c \in Calls /\ pc[c] = "ring_points" /\ Commit(c, RingPointStep(Local(c)))
Extend(c) == c \in Calls /\ pc[c] = "extend" /\ Commit(c, ExtendStep(Local(c)))
SouthFan(c) == c \in Calls /\ pc[c] = "south_fan" /\ Commit(c, SouthFanStep(Local(c)))
Bridge(c) == c \in Calls /\ pc[c] = "bridge" /\ Commit(c, BridgeStep(Local(c)))
Copy(c) == c \in Calls /\ pc[c] = "copy" /\ Commit(c, CopyStep(Local(c)))
NorthPole(c) == c \in Calls /\ pc[c] = "north_pole" /\ Commit(c, NorthPoleStep(Local(c)))
NorthFan(c) == c \in Calls /\ pc[c] = "north_fan" /\ Commit(c, NorthFanStep(Local(c)))
Finish(c) == c \in Calls /\ pc[c] = "clear" /\ Commit(c, FinishStep(Local(c)))

Next ==
    \/ \E c \in CallIds : Validate(c)
    \/ \E c \in CallIds : Allocate(c)
    \/ \E c \in CallIds : NextRing(c)
    \/ \E c \in CallIds : SouthPole(c)
    \/ \E c \in CallIds : RingPoint(c)
    \/ \E c \in CallIds : Extend(c)
    \/ \E c \in CallIds : SouthFan(c)
    \/ \E c \in CallIds : Bridge(c)
    \/ \E c \in CallIds : Copy(c)
    \/ \E c \in CallIds : NorthPole(c)
    \/ \E c \in CallIds : NorthFan(c)
    \/ \E c \in CallIds : Finish(c)

Spec == Init /\ [][Next]_vars

\* the arguments both generators are given to compare their output
TwinArgs == [radius : 1..MaxRadius, no_of_segments : MinSegments..MaxSegments, no_of_rings : MinRings..MaxRings]

\* get_uv_sphere_geom (call 1) and get_uv_sphere_egg_data (call 2) on the
\* same arguments
InitTwin ==
    \E a \in TwinArgs :
        Start([c \in {1, 2} |-> [radius |-> a.radius, no_of_segments |-> a.no_of_segments, no_of_rings |-> a.no_of_rings, form |-> IF c = 1 THEN "geom" ELSE "egg"]])

SpecTwin == InitTwin /\ [][Next]_vars

SpecPair == InitPair /\ [][Next]_vars

\* ------------------------------------------------- points2d.py generators
\* the largest quantity a sampler is asked for
MaxQuantity == 4

\* the names a generator object is bound to
GenIds == {1, 2}

\* the arguments the samplers are called with
Quantities == 0..MaxQuantity
StartDegrees == {0, 270, 450, -90}
ProportionPcts == {25, 50, 100, 200}

\* a name no generator object is bound to
NoGenerator == [kind |-> "none", quantity |-> 0, radius |-> 0, start_degrees |-> 0, include_last |-> FALSE, proportion_pct |-> 0, point_index |-> 0, unwrapped |-> << >>, passed |-> << >>, points |-> << >>, status |-> "none", exception |-> "none"]

\* the generator object a call of yield_2d_circle_points returns: no
\* statement of the body has run
NewCirclePoints(quantity, radius) == [NoGenerator EXCEPT !.kind = "circle", !.quantity = quantity, !.radius = radius, !.status = "created"]

\* the generator object a call of yield_2d_circle_points_plus returns
NewCirclePointsPlus(quantity, radius, start_degrees, include_last, proportion_pct) == [NoGenerator EXCEPT !.kind = "plus", !.quantity = quantity, !.radius = radius, !.start_degrees = start_degrees, !.include_last = include_last, !.proportion_pct = proportion_pct, !.status = "created"]

\* the same function called again with the same arguments
CalledAgain(g) ==
    IF g.kind = "circle"
    THEN NewCirclePoints(g.quantity, g.radius)
    ELSE NewCirclePointsPlus(g.quantity, g.radius, g.start_degrees, g.include_last, g.proportion_pct)

\* next() on a generator of yield_2d_circle_points
NextCirclePointStep(g) ==
    IF g.point_index >= g.quantity
    THEN [g EXCEPT !.status = "exhausted", !.exception = "StopIteration"]
    ELSE [g EXCEPT !.status = "suspended",
                   !.passed = Append(@, CircleAngle(g.point_index, g.quantity)),
                   !.points = Append(@, CirclePoint(g.point_index, g.quantity, Float(g.radius), << 0, 0 >>)),
                   !.point_index = @ + 1]

\* next() on a generator of yield_2d_circle_points_plus: the division by
\* divisor is the first thing an iteration does
NextCirclePointPlusStep(g) ==
    IF g.point_index >= g.quantity
    THEN [g EXCEPT !.status = "exhausted", !.exception = "StopIteration"]
    ELSE IF Divisor(g.quantity, g.include_last) = 0
    THEN [g EXCEPT !.status = "raised", !.exception = "ZeroDivisionError"]
    ELSE LET angle_radians == UnwrappedAngle(g.point_index, g.quantity, g.start_degrees, g.include_last, g.proportion_pct)
         IN  [g EXCEPT !.status = "suspended",
                       !.unwrapped = Append(@, angle_radians),
                       !.passed = Append(@, WrapAngle(angle_radians)),
                       !.points = Append(@, CirclePointPlus(g.point_index, g.quantity, Float(g.radius), g.start_degrees, g.include_last, g.proportion_pct, << 0, 0 >>)),
                       !.point_index = @ + 1]

\* whether next() can still run statements of the body
Resumable(g) == g.status \in {"created", "suspended"}

InitSampler == StartCalls(<< >>) /\ sampler = [g \in GenIds |-> NoGenerator] /\ cli = NoScript

CallCirclePoints ==
    /\ sampler[1] = NoGenerator
    /\ \E quantity \in Quantities, radius \in 1..MaxRadius :
        sampler' = [sampler EXCEPT ![1] = NewCirclePoints(quantity, radius)]
    /\ UNCHANGED << callVars, cli >>

CallCirclePointsPlus ==
    /\ sampler[1] = NoGenerator
    /\ \E quantity \in Quantities, radius \in 1..MaxRadius, start_degrees \in StartDegrees, include_last \in BOOLEAN, proportion_pct \in ProportionPcts :
        sampler' = [sampler EXCEPT ![1] = NewCirclePointsPlus(quantity, radius, start_degrees, include_last, proportion_pct)]
    /\ UNCHANGED << callVars, cli >>

CallAgain ==
    /\ sampler[1] # NoGenerator /\ sampler[2] = NoGenerator
    /\ sampler' = [sampler EXCEPT ![2] = CalledAgain(sampler[1])]
    /\ UNCHANGED << callVars, cli >>

NextCirclePoint(g) ==
    /\ sampler[g].kind = "circle" /\ Resumable(sampler[g])
    /\ sampler' = [sampler EXCEPT ![g] = NextCirclePointStep(@)]
    /\ UNCHANGED << callVars, cli >>

NextCirclePointPlus(g) ==
    /\ sampler[g].kind = "plus" /\ Resumable(sampler[g])
    /\ sampler' = [sampler EXCEPT ![g] = NextCirclePointPlusStep(@)]
    /\ UNCHANGED << callVars, cli >>

NextSampler ==
    \/ CallCirclePoints
    \/ CallCirclePointsPlus
    \/ CallAgain
    \/ \E g \in GenIds : NextCirclePoint(g)
    \/ \E g \in GenIds : NextCirclePointPlus(g)

SpecSampler == InitSampler /\ [][NextSampler]_vars

\* the generators of each function
CircleGens == {g \in GenIds : sampler[g].kind = "circle"}
PlusGens == {g \in GenIds : sampler[g].kind = "plus"}

\* ------------------------------------------------------------- __main__.py
\* the largest multiplier given on the command line
MaxMultiplier == 2

\* the scenarios of the package, and the names given on the command line
ValidScenarios == {"X", "A", "A1", "B", "B1"}
ScenarioArgs == ValidScenarios \cup {"Z"}

\* --multiplier as typed: text that int() accepts, with its value, or not
MultiplierArgs == {[int |-> TRUE, value |-> n] : n \in (0 - MaxMultiplier)..MaxMultiplier} \cup {[int |-> FALSE, value |-> 0]}

\* the command lines tried
CommandLines == [scenario : ScenarioArgs, multiplier : MultiplierArgs, segments : {MinSegments, DefaultSegments}, rings : {MinRings, DefaultRings}]

\* a name of the module's namespace with no value
Unbound == "<unbound>"

\* the string assigned at line 157
MultiplierErrorMsg == "Multiplier must be integer >= 1"

\* no exception raised
NoException == [type |-> "none", message |-> ""]

\* extra_kwargs = {}
NoKwargs == [no_of_segments |-> 0, no_of_rings |-> 0, given |-> FALSE]

\* the script about to run on a command line
InitScript(argv) == [pc |-> "parse", argv |-> argv, globals |-> [n \in {"error_msg", "error_message"} |-> Unbound], extra_kwargs |-> NoKwargs, exception |-> NoException, main_called |-> FALSE, run |-> "none", run_kwargs |-> NoKwargs]

\* raise exc(name): the argument is looked up first
RaiseNamed(s, exc, name) ==
    IF s.globals[name] = Unbound
    THEN [s EXCEPT !.pc = "raised", !.exception = [type |-> "NameError", message |-> name]]
    ELSE [s EXCEPT !.pc = "raised", !.exception = [type |-> exc, message |-> s.globals[name]]]

\* parser.parse_args(): every option is converted with type(default)
ParseArgsStep(s) ==
    IF ~s.argv.multiplier.int
    THEN [s EXCEPT !.pc = "exit", !.exception = [type |-> "SystemExit", message |-> "argument --multiplier: invalid int value"]]
    ELSE [s EXCEPT !.pc = "scenario"]

\* scenario = parsed_args.scenario; if scenario == 'X' ... else
ScenarioStep(s) ==
    IF s.argv.scenario = "X"
    THEN [s EXCEPT !.pc = "multiplier"]
    ELSE [s EXCEPT !.pc = "main", !.extra_kwargs = NoKwargs]

\* the check of the multiplier and the keyword arguments built after it
MultiplierStep(s) ==
    LET multiplier == s.argv.multiplier
        t == [s EXCEPT !.globals["error_msg"] = MultiplierErrorMsg]
    IN  IF ~multiplier.int THEN RaiseNamed(t, "TypeError", "error_message")
        ELSE IF multiplier.value < 1 THEN RaiseNamed(t, "ValueError", "error_message")
        ELSE [t EXCEPT !.pc = "main",
                       !.extra_kwargs = [no_of_segments |-> s.argv.segments * multiplier.value, no_of_rings |-> s.argv.rings * multiplier.value, given |-> TRUE]]

\* main(scenario_name=scenario, **extra_kwargs) up to the choice of run_scenario
MainStep(s) ==
    IF s.argv.scenario \notin ValidScenarios
    THEN [s EXCEPT !.pc = "raised", !.main_called = TRUE, !.exception = [type |-> "ValueError", message |-> "Scenario must be one of"]]
    ELSE [s EXCEPT !.pc = "run", !.main_called = TRUE]

\* run_scenario(...) for X, run_scenario() for the others
RunScenarioStep(s) ==
    [s EXCEPT !.pc = "running", !.run = s.argv.scenario,
              !.run_kwargs = IF s.argv.scenario = "X" THEN s.extra_kwargs ELSE NoKwargs]

InitMain == StartCalls(<< >>) /\ sampler = << >> /\ \E argv \in CommandLines : cli = InitScript(argv)

ParseArgs == cli.pc = "parse" /\ cli' = ParseArgsStep(cli) /\ UNCHANGED << callVars, sampler >>
Scenario == cli.pc = "scenario" /\ cli' = ScenarioStep(cli) /\ UNCHANGED << callVars, sampler >>
Multiplier == cli.pc = "multiplier" /\ cli' = MultiplierStep(cli) /\ UNCHANGED << callVars, sampler >>
Main == cli.pc = "main" /\ cli' = MainStep(cli) /\ UNCHANGED << callVars, sampler >>
RunScenario == cli.pc = "run" /\ cli' = RunScenarioStep(cli) /\ UNCHANGED << callVars, sampler >>

NextMain ==
    \/ ParseArgs
    \/ Scenario
    \/ Multiplier
    \/ Main
    \/ RunScenario

SpecMain == InitMain /\ [][NextMain]_vars

\* ------------------------------------------------------------ observations
GeomCalls == {c \in Calls : args[c].form = "geom"}
EggCalls == {c \in Calls : args[c].form = "egg"}

\* the vertex positions a call has allocated, in allocation order
Vertices(c) == IF args[c].form = "geom" THEN vdata[c] ELSE vpool[c]

\* the face records of an EggData
Polygons(c) == SelectSeq(data[c], LAMBDA ch : ch.kind = "polygon")

\* the triangles a call has emitted, each vertex named by its allocation
\* order number: the row index, or the index of the pool handle
Faces(c) ==
    IF args[c].form = "geom"
    THEN triangles[c]
    ELSE LET P == Polygons(c)
         IN  [i \in 1..Len(P) |-> [j \in 1..Len(P[i].vertices) |-> P[i].vertices[j].index]]

\* the vertex identities of a triangle, and its undirected edges
Corners(t) == {t[j] : j \in 1..Len(t)}
EdgesOf(t) == {{t[1], t[2]}, {t[2], t[3]}, {t[3], t[1]}}

\* the number of triangles of ts that have the edge e
EdgeUse(ts, e) == Cardinality({i \in 1..Len(ts) : e \subseteq Corners(ts[i])})

\* vectors
Sub(p, q) == << p[1] - q[1], p[2] - q[2], p[3] - q[3] >>
Cross(u, v) == << u[2] * v[3] - u[3] * v[2], u[3] * v[1] - u[1] * v[3], u[1] * v[2] - u[2] * v[1] >>
Dot(u, v) == u[1] * v[1] + u[2] * v[2] + u[3] * v[3]

\* (v1 - v0) x (v2 - v0) . (centroid - center), times three: the centroid is
\* left as the sum of the corners and the center taken three times
Outwardness(v0, v1, v2, radius) ==
    Dot(Cross(Sub(v1, v0), Sub(v2, v0)), Sub(<< v0[1] + v1[1] + v2[1], v0[2] + v1[2] + v2[2], v0[3] + v1[3] + v2[3] >>, << 0, 0, 3 * Float(radius) >>))

\* ------------------------------------------------------------------ claims

\* C1: a completed call of get_uv_sphere_geom has written exactly
\* segments*rings + 2 vertex rows, as many as were pre-allocated, and has
\* emitted exactly 2*segments*rings triangles; with segments = 16 and
\* rings = 8 that is 130 rows and 256 triangles.
C1_Counts ==
    \A c \in GeomCalls :
        pc[c] = "done" =>
            /\ Len(vdata[c]) = args[c].no_of_segments * args[c].no_of_rings + 2
            /\ Len(vdata[c]) = num_rows[c]
            /\ Len(triangles[c]) = 2 * args[c].no_of_segments * args[c].no_of_rings
            /\ (args[c].no_of_segments = 16 /\ args[c].no_of_rings = 8
                    => Len(vdata[c]) = 130 /\ Len(triangles[c]) = 256)

C1_Witness ==
    \E c \in GeomCalls :
        /\ pc[c] = "done"
        /\ args[c].no_of_segments = 16 /\ args[c].no_of_rings = 8
        /\ Len(vdata[c]) = 130 /\ Len(triangles[c]) = 256

\* C2: in both generators an error is raised exactly when radius <= 0 or
\* segments < 3 or rings < 3, and when it is raised nothing has been
\* allocated (no container, vertex, triangle or face) and no mesh is returned.
C2_Rejected(a) == a.radius <= 0 \/ a.no_of_segments < 3 \/ a.no_of_rings < 3

C2_Validation ==
    \A c \in Calls :
        /\ pc[c] = "raised" => C2_Rejected(args[c])
        /\ pc[c] \notin {"start", "raised"} => ~C2_Rejected(args[c])
        /\ pc[c] = "raised" =>
            /\ result[c] = "ValueError"
            /\ made[c] = {} /\ num_rows[c] = 0
            /\ vdata[c] = << >> /\ triangles[c] = << >>
            /\ vpool[c] = << >> /\ data[c] = << >>
        /\ result[c] \in {"Geom", "EggData"} => ~C2_Rejected(args[c])

C2_Witness ==
    \E c \in Calls :
        /\ pc[c] = "raised"
        /\ args[c].radius > 0 /\ args[c].no_of_segments = 2 /\ args[c].no_of_rings = 3
        /\ made[c] = {}

\* C3: the finished triangle list is a closed manifold: every undirected
\* edge of some triangle is an edge of exactly two triangles.
C3_Manifold ==
    \A c \in GeomCalls :
        pc[c] = "done" =>
            \A i \in 1..Len(triangles[c]) :
                \A e \in EdgesOf(triangles[c][i]) : EdgeUse(triangles[c], e) = 2

C3_Witness ==
    \E c \in GeomCalls :
        /\ pc[c] = "done"
        /\ args[c].no_of_segments = 4 /\ args[c].no_of_rings = 3
        /\ EdgeUse(triangles[c], {4, 1}) = 2
        /\ EdgeUse(triangles[c], {4, 8}) = 2
        /\ EdgeUse(triangles[c], {12, 13}) = 2

\* C4: every triangle emitted (south fan, ring bridges, north fan) has three
\* pairwise distinct vertex identities, each in 0 .. segments*rings + 1.
C4_Triangles ==
    \A c \in Calls :
        \A i \in 1..Len(Faces(c)) :
            /\ Len(Faces(c)[i]) = 3
            /\ Cardinality(Corners(Faces(c)[i])) = 3
            /\ Corners(Faces(c)[i]) \subseteq 0..(args[c].no_of_segments * args[c].no_of_rings + 1)

C4_Witness ==
    \E c \in GeomCalls :
        /\ pc[c] = "done"
        /\ \E i \in 1..Len(triangles[c]) : 0 \in Corners(triangles[c][i])
        /\ \E i \in 1..Len(triangles[c]) : (args[c].no_of_segments * args[c].no_of_rings + 1) \in Corners(triangles[c][i])

\* C5: every emitted triangle (v0, v1, v2) is wound outward: the normal
\* (v1-v0) x (v2-v0) has a positive dot product with centroid - (0,0,radius).
C5_Winding ==
    \A c \in Calls :
        \A i \in 1..Len(Faces(c)) :
            LET t == Faces(c)[i]
                V == Vertices(c)
            IN  Outwardness(V[t[1] + 1], V[t[2] + 1], V[t[3] + 1], args[c].radius) > 0

C5_Witness ==
    \E c \in Calls :
        /\ pc[c] = "done"
        /\ args[c].no_of_segments = MaxSegments /\ args[c].no_of_rings = MaxRings
        /\ Len(Faces(c)) = 2 * MaxSegments * MaxRings

\* C6: in get_uv_sphere_geom an identity names the row that holds the
\* vertex: the south pole is at row 0, the s-th sampled point of ring r at
\* row 1 + r*segments + s, which is the identity put in the window for that
\* position, and the north pole at row 1 + rings*segments, the last row and
\* the index the north fan uses.
C6_RingPosition(a, r, p) ==
    LET seg == SegmentPoint(a, r + 1)
        xy == CirclePoint(p, a.no_of_segments, seg[1], << 0, 0 >>)
    IN  << xy[1], xy[2], seg[2] >>

C6_RowHolds(a, id) ==
    IF id = 0 THEN << 0, 0, 0 >>
    ELSE IF id = 1 + a.no_of_rings * a.no_of_segments THEN << 0, 0, 2 * a.radius * One >>
    ELSE C6_RingPosition(a, (id - 1) \div a.no_of_segments, (id - 1) % a.no_of_segments)

C6_Identity ==
    \A c \in GeomCalls :
        LET n == args[c].no_of_segments
            T == triangles[c]
        IN  /\ \A id \in 0..(Len(vdata[c]) - 1) : vdata[c][id + 1] = C6_RowHolds(args[c], id)
            /\ (pc[c] \in {"south_fan", "bridge"} /\ loop_count[c] = 0) =>
                /\ current_ring[c] = [p \in 1..n |-> 1 + ring_index[c] * n + (p - 1)]
                /\ Len(vdata[c]) = 1 + (ring_index[c] + 1) * n
            /\ pc[c] = "north_fan" =>
                /\ Len(vdata[c]) = 2 + args[c].no_of_rings * n
                /\ Len(vdata[c]) = num_rows[c]
            /\ pc[c] = "done" =>
                /\ \A i \in 1..n : T[i][1] = 0
                /\ \A i \in (Len(T) - n + 1)..Len(T) : T[i][1] = 1 + args[c].no_of_rings * n

C6_Witness ==
    \E c \in GeomCalls :
        /\ pc[c] = "bridge" /\ loop_count[c] = 0 /\ ring_index[c] = 2
        /\ args[c].no_of_segments = 4
        /\ current_ring[c] = << 9, 10, 11, 12 >>
        /\ previous_ring[c] = << 5, 6, 7, 8 >>

\* C7: on the same arguments get_uv_sphere_egg_data emits the same sequence
\* of triangles as get_uv_sphere_geom once each pool handle is replaced by
\* its allocation order number: as many triangles, in the same order, with
\* the same vertex triple in the same order.
C7_Prefix(x, y) == Len(x) <= Len(y) /\ x = SubSeq(y, 1, Len(x))

C7_SameInput(g, e) ==
    /\ args[g].radius = args[e].radius
    /\ args[g].no_of_segments = args[e].no_of_segments
    /\ args[g].no_of_rings = args[e].no_of_rings

C7_SameTriangles ==
    \A g \in GeomCalls, e \in EggCalls :
        C7_SameInput(g, e) =>
            /\ C7_Prefix(triangles[g], Faces(e)) \/ C7_Prefix(Faces(e), triangles[g])
            /\ (pc[g] = "done" /\ pc[e] = "done") => Faces(e) = triangles[g]

C7_Witness ==
    \E g \in GeomCalls, e \in EggCalls :
        /\ C7_SameInput(g, e)
        /\ pc[g] = "done" /\ pc[e] = "done"
        /\ args[g].no_of_segments = 4 /\ args[g].no_of_rings = 3
        /\ Len(Faces(e)) = 24 /\ Faces(e) = triangles[g]

\* C8: in both generators the first vertex allocated (the south pole) is at
\* exactly (0, 0, 0) and the last one (the north pole) at exactly
\* (0, 0, 2*radius), whatever segments and rings are.
C8_Poles ==
    \A c \in Calls :
        /\ Len(Vertices(c)) >= 1 => Vertices(c)[1] = << 0, 0, 0 >>
        /\ pc[c] \in {"north_fan", "done"} =>
            Vertices(c)[Len(Vertices(c))] = << 0, 0, 2 * args[c].radius * One >>

C8_Witness ==
    \E c \in EggCalls :
        /\ pc[c] = "done"
        /\ args[c].radius = 2
        /\ vpool[c][1] = << 0, 0, 0 >>
        /\ vpool[c][Len(vpool[c])] = << 0, 0, 400 >>

\* C9: the output of a generation call is a function of its arguments only.
\* When two calls are interleaved step by step in any order, each call's
\* vertex sequence and triangle sequence are at every moment the beginning
\* of, and on return equal to, the one sequence its arguments determine
\* (which is what the call gives when the other never moves, that is, alone):
\* the windows and the samplers' iteration state are local to the call.  Two
\* calls with the same arguments give the same vertices and triangles, and
\* both windows are empty when a call returns.
C9_Id(a, r, p) == 1 + r * a.no_of_segments + (p % a.no_of_segments)

C9_FaceAt(a, i) ==
    LET n == a.no_of_segments
        m == a.no_of_rings
        k == i - n - 1
        r == 1 + (k \div (2 * n))
        p == (k % (2 * n)) \div 2
        q == i - (2 * n * m - n) - 1
    IN  IF i <= n THEN << 0, C9_Id(a, 0, i - 1), C9_Id(a, 0, i - 2) >>
        ELSE IF i > 2 * n * m - n THEN << 1 + m * n, C9_Id(a, m - 1, q - 1), C9_Id(a, m - 1, q) >>
        ELSE IF k % 2 = 0 THEN << C9_Id(a, r - 1, p - 1), C9_Id(a, r, p), C9_Id(a, r, p - 1) >>
        ELSE << C9_Id(a, r, p), C9_Id(a, r - 1, p - 1), C9_Id(a, r - 1, p) >>

C9_Isolation ==
    /\ \A c \in Calls :
        LET V == Vertices(c)
            F == Faces(c)
            a == args[c]
        IN  /\ Len(V) <= a.no_of_segments * a.no_of_rings + 2
            /\ \A i \in 1..Len(V) : V[i] = C6_RowHolds(a, i - 1)
            /\ Len(F) <= 2 * a.no_of_segments * a.no_of_rings
            /\ \A i \in 1..Len(F) : F[i] = C9_FaceAt(a, i)
            /\ pc[c] = "done" =>
                /\ Len(V) = a.no_of_segments * a.no_of_rings + 2
                /\ Len(F) = 2 * a.no_of_segments * a.no_of_rings
                /\ current_ring[c] = << >> /\ previous_ring[c] = << >>
    /\ \A c \in Calls, d \in Calls :
        (args[c] = args[d] /\ pc[c] = "done" /\ pc[d] = "done") =>
            /\ vdata[c] = vdata[d] /\ triangles[c] = triangles[d]
            /\ vpool[c] = vpool[d] /\ data[c] = data[d]

C9_Witness ==
    /\ args[1].form = "geom" /\ args[2].form = "geom"
    /\ args[1].radius # args[2].radius
    /\ pc[1] = "bridge" /\ pc[2] = "bridge"
    /\ ring_index[1] = 2 /\ ring_index[2] = 1
    /\ loop_count[1] = 1 /\ loop_count[2] = 2

\* C10: the EggData holds exactly one coordinate-system record (Z-up) and
\* exactly one vertex pool, both added before any face record, then exactly
\* 2*segments*rings face records; every face record holds exactly three
\* handles of that pool, and the pool holds segments*rings + 2 vertices.
C10_EggStructure ==
    \A c \in EggCalls :
        /\ pc[c] \notin {"start", "alloc", "raised"} =>
            /\ Len(data[c]) >= 2
            /\ data[c][1].kind = "coordinate_system" /\ data[c][1].value = "CSZupRight"
            /\ data[c][2].kind = "vertex_pool"
            /\ \A i \in 3..Len(data[c]) : data[c][i].kind = "polygon"
        /\ \A i \in 1..Len(data[c]) :
            data[c][i].kind = "polygon" =>
                /\ Len(data[c][i].vertices) = 3
                /\ \A j \in 1..3 : data[c][i].vertices[j].index \in 0..(Len(vpool[c]) - 1)
        /\ pc[c] = "done" =>
            /\ Len(data[c]) = 2 + 2 * args[c].no_of_segments * args[c].no_of_rings
            /\ Len(vpool[c]) = args[c].no_of_segments * args[c].no_of_rings + 2

C10_Witness ==
    \E c \in EggCalls :
        /\ pc[c] = "done"
        /\ args[c].no_of_segments = 5 /\ args[c].no_of_rings = 4
        /\ Len(data[c]) = 42 /\ Len(vpool[c]) = 22
        /\ data[c][42].kind = "polygon"

\* ------------------------------------------------------- rings and windows
\* the identities a window holds: indices (flat form), handles' indices (pool form)
WindowIds(c, w) == IF args[c].form = "geom" THEN w ELSE [i \in 1..Len(w) |-> w[i].index]

\* the identities of ring r in position order 0 .. segments-1
RingIds(a, r) == [p \in 1..a.no_of_segments |-> C9_Id(a, r, p - 1)]

\* a window after k one-step rotations
Rotated(w, k) == [i \in 1..Len(w) |-> w[((i - 1 + k) % Len(w)) + 1]]

\* C14: for each ring r in 1 .. rings-1 and each step s in 0 .. segments-1
\* the two triangles emitted are (id(r-1,s-1), id(r,s), id(r,s-1)) and then
\* (id(r,s), id(r-1,s-1), id(r-1,s)); the two windows stay aligned on the
\* same position at every step, and the two triangles of a step cover the quad
\* between positions s-1 and s of rings r-1 and r.
C14_Bridge ==
    \A c \in Calls :
        LET a == args[c]
            n == a.no_of_segments
            r == ring_index[c]
            s == loop_count[c]
            F == Faces(c)
            base == n + 2 * n * (r - 1)
            cur == WindowIds(c, current_ring[c])
            prev == WindowIds(c, previous_ring[c])
        IN  (pc[c] \in {"bridge", "copy"} /\ r >= 1) =>
                /\ r \in 1..(a.no_of_rings - 1) /\ s \in 0..n
                /\ pc[c] = "copy" <=> s = n
                /\ Len(F) = base + 2 * s
                /\ \A k \in 0..(s - 1) :
                    LET t1 == F[base + 2 * k + 1]
                        t2 == F[base + 2 * k + 2]
                        quad == {C9_Id(a, r - 1, k - 1), C9_Id(a, r - 1, k), C9_Id(a, r, k - 1), C9_Id(a, r, k)}
                    IN  /\ t1 = << C9_Id(a, r - 1, k - 1), C9_Id(a, r, k), C9_Id(a, r, k - 1) >>
                        /\ t2 = << C9_Id(a, r, k), C9_Id(a, r - 1, k - 1), C9_Id(a, r - 1, k) >>
                        /\ Cardinality(quad) = 4
                        /\ Corners(t1) \cup Corners(t2) = quad
                        /\ Corners(t1) \cap Corners(t2) = {C9_Id(a, r, k), C9_Id(a, r - 1, k - 1)}
                /\ Len(cur) = n /\ Len(prev) = n
                /\ Front(cur) = C9_Id(a, r, s) /\ Back(cur) = C9_Id(a, r, s - 1)
                /\ Front(prev) = C9_Id(a, r - 1, s) /\ Back(prev) = C9_Id(a, r - 1, s - 1)

C14_Witness ==
    \E c \in EggCalls :
        /\ pc[c] = "bridge" /\ ring_index[c] = 2 /\ loop_count[c] = 3
        /\ args[c].no_of_segments = 5
        /\ Faces(c)[20] = << 7, 13, 12 >> /\ Faces(c)[21] = << 13, 7, 8 >>
        /\ Front(current_ring[c]) = Handle(14) /\ Back(previous_ring[c]) = Handle(8)

\* C15: the first `segments` triangles emitted are, for s = 0 .. segments-1
\* in that order, (southPole, id(0,s), id(0,s-1 mod segments)); after the
\* `segments` rotations the current window holds ring 0's identities in their
\* original order, and that ordered content is what is copied into the
\* previous window.
C15_SouthFan ==
    \A c \in Calls :
        LET a == args[c]
            n == a.no_of_segments
            r == ring_index[c]
            s == loop_count[c]
            F == Faces(c)
            cur == WindowIds(c, current_ring[c])
            prev == WindowIds(c, previous_ring[c])
            copied == \/ r = 0 /\ pc[c] = "next_ring"
                      \/ r = 1 /\ pc[c] \in {"ring_points", "extend"}
                      \/ r = 1 /\ pc[c] = "bridge" /\ s = 0
        IN  /\ \A i \in 1..Len(F) : i <= n => F[i] = << 0, C9_Id(a, 0, i - 1), C9_Id(a, 0, i - 2) >>
            /\ pc[c] = "south_fan" =>
                /\ r = 0 /\ s \in 0..(n - 1) /\ Len(F) = s
                /\ cur = Rotated(RingIds(a, 0), s)
                /\ prev = << >>
                /\ IsEgg(Local(c)) => first_vertex[c] = Handle(0)
            /\ (pc[c] = "copy" /\ r = 0) => (Len(F) = n /\ s = n /\ cur = RingIds(a, 0) /\ prev = << >>)
            /\ copied => (prev = RingIds(a, 0) /\ Len(F) = n)

C15_Witness ==
    \E c \in GeomCalls :
        /\ pc[c] = "next_ring" /\ ring_index[c] = 0 /\ args[c].no_of_segments = 4
        /\ previous_ring[c] = << 1, 2, 3, 4 >> /\ current_ring[c] = << 1, 2, 3, 4 >>
        /\ triangles[c] = << << 0, 1, 4 >>, << 0, 2, 1 >>, << 0, 3, 2 >>, << 0, 4, 3 >> >>

\* C16: the last `segments` triangles emitted are, for s = 0 .. segments-1 in
\* that order, (northPole, id(rings-1,s-1 mod segments), id(rings-1,s)): the
\* north fan is built from the identities of the last ring, copied into the
\* previous window after that ring's bridging pass, never from ring rings-2,
\* and it is emitted exactly once per generation.
C16_NorthFan ==
    \A c \in Calls :
        LET a == args[c]
            n == a.no_of_segments
            m == a.no_of_rings
            r == ring_index[c]
            s == loop_count[c]
            F == Faces(c)
            base == 2 * n * m - n
            pole == 1 + m * n
            prev == WindowIds(c, previous_ring[c])
        IN  /\ Len(F) <= base + n
            /\ \A i \in 1..Len(F) :
                IF i > base
                THEN F[i] = << pole, C9_Id(a, m - 1, i - base - 2), C9_Id(a, m - 1, i - base - 1) >>
                ELSE pole \notin Corners(F[i])
            /\ pc[c] = "north_pole" => (r = m - 1 /\ Len(F) = base /\ prev = RingIds(a, m - 1))
            /\ pc[c] = "north_fan" =>
                /\ r = m - 1 /\ s \in 0..(n - 1) /\ Len(F) = base + s
                /\ prev = Rotated(RingIds(a, m - 1), s)
                /\ prev # Rotated(RingIds(a, m - 2), s)
                /\ IsEgg(Local(c)) => last_vertex[c] = Handle(pole)
            /\ pc[c] = "done" => (Len(F) = base + n /\ r = m - 1)

C16_Witness ==
    \E c \in EggCalls :
        /\ pc[c] = "done" /\ args[c].no_of_segments = 3 /\ args[c].no_of_rings = 4
        /\ Len(Faces(c)) = 24
        /\ Faces(c)[22] = << 13, 12, 10 >> /\ Faces(c)[23] = << 13, 10, 11 >>
        /\ Faces(c)[24] = << 13, 11, 12 >>

\* C17: neither window ever holds more than `segments` entries; at the start
\* of the bridging pass of every ring r >= 1 the previous window holds exactly
\* the identities of ring r-1 in position order and the current window those
\* of ring r: extending a full window evicts every identity of the older
\* ring, and each pass of `segments` rotations leaves both windows in their
\* original orientation.
C17_Windows ==
    \A c \in Calls :
        LET a == args[c]
            n == a.no_of_segments
            r == ring_index[c]
            s == loop_count[c]
            cur == WindowIds(c, current_ring[c])
            prev == WindowIds(c, previous_ring[c])
            older(w, k) == {w[i] : i \in 1..Len(w)} \cap {C9_Id(a, k, p) : p \in 0..(n - 1)}
        IN  /\ Len(current_ring[c]) <= n /\ Len(previous_ring[c]) <= n
            /\ (pc[c] = "bridge" /\ s = 0) =>
                /\ r >= 1
                /\ prev = RingIds(a, r - 1) /\ cur = RingIds(a, r)
                /\ older(cur, r - 1) = {}
                /\ r >= 2 => older(prev, r - 2) = {}
            /\ pc[c] = "copy" =>
                /\ s = n /\ cur = RingIds(a, r)
                /\ r >= 1 => prev = RingIds(a, r - 1)
            /\ (pc[c] \in {"next_ring", "north_pole"} /\ r >= 0) => (prev = RingIds(a, r) /\ cur = prev)

C17_Witness ==
    \E c \in GeomCalls :
        /\ pc[c] = "bridge" /\ loop_count[c] = 0 /\ ring_index[c] = 3
        /\ previous_ring[c] = << 11, 12, 13, 14, 15 >>
        /\ current_ring[c] = << 16, 17, 18, 19, 20 >>

\* C18: for valid input the ring loop runs exactly `rings` iterations with
\* ring index 0 .. rings-1; iteration r consumes meridian sample r+1 out of the
\* rings+2 samples, and samples 0 and rings+1 are never used to build a ring;
\* the first-ring branch (south pole + south fan) is executed exactly once, at
\* r = 0, and the last-ring branch (north pole + north fan) exactly once, at
\* r = rings-1, after that ring's bridging pass.
C18_RingLoop ==
    \A c \in Calls :
        LET a == args[c]
            n == a.no_of_segments
            m == a.no_of_rings
            r == ring_index[c]
            V == Vertices(c)
            F == Faces(c)
        IN  /\ r \in -1..(m - 1)
            /\ r = -1 => (segment_point_index[c] = 0 /\ Len(V) = 0 /\ Len(F) = 0)
            /\ r >= 0 =>
                /\ segment_point_index[c] = r + 2
                /\ r + 1 \in 1..(QuantityOfPoints(a) - 2)
                /\ segment_xz[c] = SegmentPoint(a, r + 1)
            /\ pc[c] = "south_pole" => (r = 0 /\ Len(V) = 0 /\ Len(F) = 0)
            /\ pc[c] = "south_fan" => (r = 0 /\ Len(V) = n + 1 /\ Len(F) < n)
            /\ pc[c] = "bridge" => (r >= 1 /\ Len(V) = 1 + n * (r + 1))
            /\ pc[c] = "north_pole" => (r = m - 1 /\ Len(V) = n * m + 1 /\ Len(F) = 2 * n * m - n)
            /\ pc[c] = "north_fan" => (r = m - 1 /\ Len(V) = n * m + 2 /\ Len(F) >= 2 * n * m - n)
            /\ (pc[c] = "next_ring" /\ r >= 0) => Len(V) = 1 + n * (r + 1) + (IF r = m - 1 THEN 1 ELSE 0)
            /\ pc[c] \in {"clear", "done"} =>
                /\ r = m - 1 /\ segment_point_index[c] = m + 1
                /\ Len(V) = n * m + 2 /\ Len(F) = 2 * n * m

C18_Witness ==
    \E c \in Calls :
        /\ pc[c] = "clear" /\ args[c].no_of_rings = 4 /\ args[c].no_of_segments = 3
        /\ ring_index[c] = 3 /\ segment_point_index[c] = 5
        /\ segment_xz[c] = SegmentPoint(args[c], 4)
        /\ Len(Vertices(c)) = 14

\* C19: during one generation every vertex (the south pole, each (ring,
\* position) pair, the north pole) is allocated exactly once and its position
\* is computed exactly once: the number of allocations equals
\* segments*rings + 2, and no identity is ever given to two allocations.
C19_AllocatedOnce ==
    \A c \in Calls :
        LET a == args[c]
            n == a.no_of_segments
            m == a.no_of_rings
            r == ring_index[c]
            V == Vertices(c)
            F == Faces(c)
            fresh == Len(V)
            windows == WindowIds(c, current_ring[c]) \o WindowIds(c, previous_ring[c])
            built == IF r < 0 \/ pc[c] = "south_pole" THEN 0
                     ELSE IF pc[c] = "ring_points" THEN 1 + n * r + point_index[c]
                     ELSE 1 + n * (r + 1) + (IF pc[c] \in {"north_fan", "clear", "done"} \/ (pc[c] = "next_ring" /\ r = m - 1) THEN 1 ELSE 0)
        IN  /\ Len(V) = built
            /\ Len(V) <= n * m + 2
            /\ pc[c] = "done" => Len(V) = n * m + 2
            /\ \A i \in 1..Len(V), j \in 1..Len(V) : V[i] = V[j] => i = j
            /\ \A i \in 1..Len(windows) : windows[i] \in 0..(fresh - 1)
            /\ \A i \in 1..Len(F) : \A j \in 1..3 : F[i][j] \in 0..(IF IsGeom(Local(c)) THEN n * m + 1 ELSE fresh - 1)
            /\ IsEgg(Local(c)) =>
                /\ first_vertex[c] # None => first_vertex[c] = Handle(0)
                /\ last_vertex[c] # None => (last_vertex[c] = Handle(n * m + 1) /\ fresh = n * m + 2)
            /\ IsGeom(Local(c)) => (pc[c] \in {"start", "raised", "alloc"} \/ num_rows[c] = n * m + 2)

C19_Witness ==
    \E c \in GeomCalls :
        /\ pc[c] = "done" /\ args[c].no_of_segments = 5 /\ args[c].no_of_rings = 4
        /\ Len(vdata[c]) = 22 /\ num_rows[c] = 22
        /\ Cardinality({vdata[c][i] : i \in 1..22}) = 22

\* C11: for every quantity >= 0, yield_2d_circle_points yields exactly
\* `quantity` points and then stops; the i-th point (0-based) is at the
\* fraction i/quantity of a full turn, so the first point is at angle 0 and
\* consecutive points are one quantity-th of a turn apart; every new
\* invocation starts again at i = 0 regardless of how far any earlier
\* invocation was consumed.
C11_CirclePoints ==
    /\ \A g \in CircleGens :
        LET o == sampler[g]
            q == o.quantity
        IN  /\ o.status # "raised"
            /\ Len(o.points) = o.point_index /\ Len(o.passed) = o.point_index
            /\ o.point_index <= q
            /\ o.status = "created" => o.point_index = 0
            /\ o.status = "exhausted" => Len(o.points) = q
            /\ \A i \in 1..Len(o.passed) :
                /\ o.passed[i] * q = (i - 1) * Tau
                /\ i = 1 => o.passed[i] = 0
                /\ i > 1 => (o.passed[i] - o.passed[i - 1]) * q = Tau
                /\ o.points[i] = << Mul(Float(o.radius), Cos(o.passed[i])), Mul(Float(o.radius), Sin(o.passed[i])) >>
    /\ (1 \in CircleGens /\ 2 \in CircleGens) =>
        /\ sampler[2].quantity = sampler[1].quantity
        /\ \A i \in 1..Len(sampler[2].points) : i <= Len(sampler[1].points) => sampler[2].points[i] = sampler[1].points[i]
        /\ sampler[2].status = "exhausted" => Len(sampler[2].points) = sampler[2].quantity

C11_Witness ==
    /\ sampler[1].kind = "circle" /\ sampler[1].quantity = 4 /\ sampler[1].radius = 1
    /\ sampler[1].status = "suspended" /\ sampler[1].passed = << 0, 180, 360 >>
    /\ sampler[1].points = << << 100, 0 >>, << 0, 100 >>, << -100, 0 >> >>
    /\ sampler[2].kind = "circle" /\ sampler[2].status = "exhausted"
    /\ sampler[2].passed = << 0, 180, 360, 540 >>

\* a call with quantity 0 yields nothing and stops
C11_WitnessEmpty ==
    /\ sampler[1].kind = "circle" /\ sampler[1].quantity = 0
    /\ sampler[1].status = "exhausted" /\ sampler[1].points = << >>

\* C12: for every quantity >= 1, yield_2d_circle_points_plus yields exactly
\* `quantity` samples whose i-th unwrapped angle is start + (i/quantity) *
\* proportion of a turn when include_last is false and start +
\* (i/(quantity-1)) * proportion of a turn when include_last is true, so that
\* with include_last the final sample lies exactly at the arc's end angle
\* start + proportion of a turn.
C12_PlusSamples ==
    \A g \in PlusGens :
        LET o == sampler[g]
            q == o.quantity
            start == StartAngle(o.start_degrees)
            arc == TauProportion(o.proportion_pct)
        IN  q >= 1 =>
                /\ o.status # "raised"
                /\ Len(o.points) <= q /\ Len(o.unwrapped) = Len(o.points)
                /\ o.status = "exhausted" => Len(o.points) = q
                /\ \A i \in 1..Len(o.unwrapped) :
                    (o.unwrapped[i] - start) * (IF o.include_last THEN q - 1 ELSE q) = (i - 1) * arc
                /\ (o.include_last /\ o.status = "exhausted") => o.unwrapped[q] = start + arc

\* the call with quantity = 1 and include_last = True divides by zero on the
\* first next() and yields nothing
C12_Witness ==
    /\ sampler[1].kind = "plus" /\ sampler[1].quantity = 1 /\ sampler[1].include_last
    /\ sampler[1].status = "raised" /\ sampler[1].exception = "ZeroDivisionError"
    /\ sampler[1].points = << >>

\* with any other input the samples are as C12 states
C12_DivisorNotZero ==
    \A g \in PlusGens :
        LET o == sampler[g]
            q == o.quantity
            start == StartAngle(o.start_degrees)
            arc == TauProportion(o.proportion_pct)
        IN  (q >= 1 /\ Divisor(q, o.include_last) # 0) =>
                /\ o.status # "raised"
                /\ o.status = "exhausted" => Len(o.points) = q
                /\ \A i \in 1..Len(o.unwrapped) :
                    (o.unwrapped[i] - start) * Divisor(q, o.include_last) = (i - 1) * arc
                /\ (o.include_last /\ o.status = "exhausted") => o.unwrapped[q] = start + arc

\* C13: for every call of yield_2d_circle_points_plus (any start_degrees, any
\* circle_proportion, either value of include_last) and every sample, the
\* angle passed to cos/sin is the unwrapped angle start + offset reduced
\* modulo one full turn, i.e. it lies in [0, 2*pi).
C13_Wrapped ==
    \A g \in PlusGens :
        \A i \in 1..Len(sampler[g].passed) :
            /\ sampler[g].passed[i] = sampler[g].unwrapped[i] % Tau
            /\ sampler[g].passed[i] >= 0 /\ sampler[g].passed[i] < Tau

\* a full circle with include_last: the last sample is passed to cos/sin as
\* one whole turn
C13_Witness ==
    /\ sampler[1].kind = "plus" /\ sampler[1].quantity = 2 /\ sampler[1].include_last
    /\ sampler[1].start_degrees = 0 /\ sampler[1].proportion_pct = 100
    /\ sampler[1].unwrapped = << 0, Tau >> /\ sampler[1].passed = << 0, Tau >>

\* C20: when the program is started from the command line with scenario X and
\* a multiplier below 1, it is rejected with a ValueError carrying the message
\* "Multiplier must be integer >= 1", and this happens before main() is
\* called, so no scenario is started and no sphere is generated.
C20_MultiplierRejected ==
    (cli.pc # "none" /\ cli.argv.scenario = "X" /\ cli.argv.multiplier.int /\ cli.argv.multiplier.value < 1) =>
        /\ cli.pc \in {"parse", "scenario", "multiplier", "raised"}
        /\ ~cli.main_called /\ cli.run = "none"
        /\ cli.pc = "raised" => cli.exception = [type |-> "ValueError", message |-> "Multiplier must be integer >= 1"]

\* the multiplier 0 ends the script with a NameError for error_message
C20_Witness ==
    /\ cli.pc = "raised" /\ cli.argv.scenario = "X" /\ cli.argv.multiplier = [int |-> TRUE, value |-> 0]
    /\ cli.exception = [type |-> "NameError", message |-> "error_message"]
    /\ cli.globals["error_msg"] = MultiplierErrorMsg /\ cli.globals["error_message"] = Unbound
    /\ ~cli.main_called

\* the part of C20 the script keeps: with a multiplier below 1 the script ends
\* in an exception before main() is called and no scenario is run
C20_NothingStarted ==
    (cli.pc # "none" /\ cli.argv.scenario = "X" /\ cli.argv.multiplier.int /\ cli.argv.multiplier.value < 1) =>
        /\ cli.pc \in {"parse", "scenario", "multiplier", "raised"}
        /\ ~cli.main_called /\ cli.run = "none"
        /\ cli.pc = "raised" => cli.exception.type # "none"

\* ----------------------------------------------------------- orientation
\* the ordered pairs of cyclically consecutive corners of a triangle
DirectedEdgesOf(t) == {<< t[1], t[2] >>, << t[2], t[3] >>, << t[3], t[1] >>}

\* the triangles of ts that have the ordered pair e as consecutive corners
DirectedUsers(ts, e) == {i \in 1..Len(ts) : e \in DirectedEdgesOf(ts[i])}

\* C21: for every valid input the finished triangle list is consistently
\* oriented: every ordered vertex pair (u, v) that appears as a cyclically
\* consecutive pair inside a triangle appears so in exactly one triangle, and
\* the reversed pair (v, u) appears as a cyclically consecutive pair in
\* exactly one other triangle, across the south fan, both triangles of every
\* bridge step, and the north fan.
C21_Oriented ==
    \A c \in Calls :
        pc[c] = "done" =>
            LET F == Faces(c)
            IN  \A i \in 1..Len(F) :
                    \A e \in DirectedEdgesOf(F[i]) :
                        /\ DirectedUsers(F, e) = {i}
                        /\ Cardinality(DirectedUsers(F, << e[2], e[1] >>)) = 1
                        /\ i \notin DirectedUsers(F, << e[2], e[1] >>)

C21_Witness ==
    \E c \in Calls :
        /\ pc[c] = "done" /\ args[c].no_of_segments = 4 /\ args[c].no_of_rings = 3
        /\ DirectedUsers(Faces(c), << 0, 1 >>) = {1} /\ DirectedUsers(Faces(c), << 1, 0 >>) = {2}
        /\ DirectedUsers(Faces(c), << 1, 4 >>) = {1} /\ DirectedUsers(Faces(c), << 4, 1 >>) = {6}
        /\ DirectedUsers(Faces(c), << 13, 12 >>) = {21} /\ DirectedUsers(Faces(c), << 12, 13 >>) = {24}

\* -------------------------------------------------- allocation before use
\* every triangle a step of call c emits refers only to vertices allocated
\* before that step
C22_EmitsAllocated(c) ==
    LET V == Vertices(c)
        F == Faces(c)
        G == Faces(c)'
    IN  \A i \in 1..Len(G) : i > Len(F) => \A j \in 1..3 : G[i][j] \in 0..(Len(V) - 1)

\* what is written when a bridging pass and the north fan start
C22_WrittenBefore(c) ==
    LET a == args[c]
        n == a.no_of_segments
        m == a.no_of_rings
        r == ring_index[c]
        V == Vertices(c)
        F == Faces(c)
    IN  /\ \A i \in 1..Len(F) : \A j \in 1..3 : F[i][j] \in 0..(Len(V) - 1)
        /\ (pc[c] = "south_fan" /\ loop_count[c] = 0) => (Len(V) = 1 + n /\ Len(F) = 0)
        /\ (pc[c] = "bridge" /\ loop_count[c] = 0) => (Len(V) = 1 + n * (r + 1) /\ Len(F) = n + 2 * n * (r - 1))
        /\ (pc[c] = "north_fan" /\ loop_count[c] = 0) => (Len(V) = n * m + 2 /\ Len(F) = 2 * n * m - n)
        /\ IsEgg(Local(c)) => \A i \in 1..(Len(current_ring[c]) + Len(previous_ring[c])) : (current_ring[c] \o previous_ring[c])[i].index < Len(vpool[c])

\* C22: at the moment any triangle is emitted, all three vertices it
\* references have already been allocated: in the flat form every index in
\* the triangle is smaller than the number of rows written so far, in the
\* pool form every handle has already been returned by makeNewVertex; all
\* vertices of ring r are written before the first bridge triangle of ring r,
\* and the north pole is written before the first north-fan triangle.
C22_AllocatedFirst ==
    /\ [](\A c \in Calls : C22_WrittenBefore(c))
    /\ [][\A c \in Calls : C22_EmitsAllocated(c)]_vars

C22_Witness ==
    \E c \in GeomCalls :
        /\ pc[c] = "north_fan" /\ loop_count[c] = 1
        /\ args[c].no_of_segments = 3 /\ args[c].no_of_rings = 3
        /\ Len(vdata[c]) = 11
        /\ triangles[c][16] = << 10, 9, 7 >>

\* ---------------------------------------------------------------- meridian
\* an angle as its offset from 0 degrees, in -180 .. 180 degrees (half degrees)
C23_FromZero(angle) == ((angle + (Tau \div 2)) % Tau) - (Tau \div 2)

\* the point of a circle of radius R centered at (0, R) at an angle
C23_PointAt(a, angle) == << Mul(Float(a.radius), Cos(angle)), Float(a.radius) + Mul(Float(a.radius), Sin(angle)) >>

\* the samples of the meridian of a call with arguments a
C23_Samples(a) ==
    LET m == a.no_of_rings
        south == (3 * Tau) \div 4
        north == Tau \div 4
    IN  /\ MeridianAngle(a, 0) = south /\ MeridianAngle(a, m + 1) = north
        /\ SegmentPoint(a, 0) = << 0, 0 >> /\ SegmentPoint(a, m + 1) = << 0, 2 * Float(a.radius) >>
        /\ \A i \in 0..(m + 1) :
            /\ (MeridianAngle(a, i) % Tau) * 2 * (m + 1) = ((3 * Tau * (m + 1)) \div 2 + i * Tau) % (Tau * 2 * (m + 1))
            /\ SegmentPoint(a, i) = C23_PointAt(a, MeridianAngle(a, i) % Tau)
        /\ \A i \in 1..m :
            /\ C23_FromZero(MeridianAngle(a, i)) > 0 - north
            /\ C23_FromZero(MeridianAngle(a, i)) < north
            /\ MeridianAngle(a, i) % Tau # south /\ MeridianAngle(a, i) % Tau # north
            /\ SegmentPoint(a, i)[1] > 0
            /\ SegmentPoint(a, i) # SegmentPoint(a, 0) /\ SegmentPoint(a, i) # SegmentPoint(a, m + 1)
        /\ \A i \in 0..m :
            /\ C23_FromZero(MeridianAngle(a, i)) < C23_FromZero(MeridianAngle(a, i + 1))
            /\ SegmentPoint(a, i)[2] < SegmentPoint(a, i + 1)[2]

\* C23: for every rings >= 3 the meridian sampling of both generators
\* (quantity = rings+2, start 270 degrees, include_last, half circle) puts
\* sample 0 at 270 degrees and sample rings+1 at 90 degrees, and every
\* interior sample i at 270 + i*180/(rings+1) degrees modulo one turn,
\* strictly between the two pole angles on the half circle through 0 degrees
\* and strictly advancing with i; no ring coincides with a pole, every ring
\* has a strictly positive planar radius, and ring heights strictly increase
\* with the ring index.
C23_Meridian ==
    \A c \in Calls :
        pc[c] \notin {"start", "raised"} =>
            /\ args[c].no_of_rings >= MinRings
            /\ C23_Samples(args[c])
            /\ ring_index[c] >= 0 =>
                /\ segment_xz[c] = SegmentPoint(args[c], ring_index[c] + 1)
                /\ segment_xz[c][1] > 0
                /\ segment_xz[c][2] > 0 /\ segment_xz[c][2] < 2 * Float(args[c].radius)
                /\ ring_index[c] >= 1 => segment_xz[c][2] > SegmentPoint(args[c], ring_index[c])[2]

C23_Witness ==
    \E c \in EggCalls :
        /\ args[c].no_of_rings = 3 /\ args[c].radius = 1
        /\ ring_index[c] = 1 /\ pc[c] = "bridge"
        /\ MeridianAngle(args[c], 2) = Tau
        /\ segment_xz[c] = << 100, 100 >>
        /\ MeridianAngle(args[c], 1) = 630 /\ MeridianAngle(args[c], 3) = 90

====
